---- MODULE Spec2Model ----
(***************************************************************************)
(* Model of app/lib/transactions.ts: the two sponsored submission flows    *)
(* (submitCounterTransaction, submitCounterTransactionNative), the helper  *)
(* buildSignAndSponsorTransaction, getCounterFunction and                  *)
(* fetchCounterValue.                                                      *)
(*                                                                         *)
(* An async function is a process whose pc names the await it is           *)
(* suspended at.  One action is the resumption after one await: the        *)
(* outcome of the awaited external call (drawn with \E) together with the  *)
(* synchronous code that runs up to the next await or to the end.          *)
(* External collaborators (chain client, signer, wallet, fetch) are the    *)
(* environment.                                                            *)
(***************************************************************************)
EXTENDS Integers, Sequences, FiniteSets, TLC

VARIABLES
    call,      \* call[c]: one invocation of a submission function
    reader,    \* one invocation of fetchCounterValue
    hex        \* inputs and results of the hex normalisation (lines 67-76)

vars == <<call, reader, hex>>

-----------------------------------------------------------------------------
(* Bounds *)

MaxAmount == 1          \* amounts range over -1 .. MaxAmount
MaxTick == 2            \* Date.now() ranges over half-second ticks 1 .. MaxTick
MaxCounter == 2         \* counter values the view call can return: 0 .. MaxCounter
MaxLeadBytes == 3       \* public keys carry 0 .. MaxLeadBytes bytes before a 31-byte tail

-----------------------------------------------------------------------------
(* JavaScript values *)

Undefined == "<undefined>"                 \* the value undefined (never a string of the run)
Truthy_DefinedOnly(v) == v # Undefined        \* only undefined counts as missing
Truthy(v) == v \notin {Undefined, ""}      \* truthiness of a string-or-undefined value

Err(name, message) == [name |-> name, message |-> message]
NoError == Err("", "")

CallIds == {"c1", "c2"}

-----------------------------------------------------------------------------
(* Hex strings *)

HexDigits == {"0", "1", "2", "3", "4", "5", "6", "7", "8", "9",
              "a", "b", "c", "d", "e", "f"}
IsHex(s) == \A i \in 1..Len(s) : SubSeq(s, i, i) \in HexDigits

Prefix0x == "0x"
RECURSIVE Rep(_, _)
Rep(ch, n) == IF n = 0 THEN "" ELSE ch \o Rep(ch, n - 1)

\* s.startsWith('0x') and s.slice(2)
StartsWith0x(s) == Len(s) >= 2 /\ SubSeq(s, 1, 2) = "0x"
Slice2(s) == SubSeq(s, 3, Len(s))

\* x.startsWith('0x') ? x.slice(2) : x
StripHexPrefix(s) == IF StartsWith0x(s) THEN Slice2(s) ELSE s

\* the length is taken before the prefix is stripped
CleanPublicKey_LengthOfInput(publicKeyHex) ==
    LET cleanPublicKey == StripHexPrefix(publicKeyHex)
    IN  IF Len(publicKeyHex) = 66 THEN Slice2(cleanPublicKey) ELSE cleanPublicKey

\* cleanPublicKey: the prefix is stripped, then a 66-character key loses its first byte
CleanPublicKey(publicKeyHex) ==
    LET cleanPublicKey == StripHexPrefix(publicKeyHex)
    IN  IF Len(cleanPublicKey) = 66 THEN Slice2(cleanPublicKey) ELSE cleanPublicKey

\* rawSignature.startsWith('0x') ? rawSignature.slice(2) : rawSignature
CleanSignature(rawSignature) == StripHexPrefix(rawSignature)

\* new Ed25519PublicKey(hex) accepts 32 bytes, new Ed25519Signature(hex) 64 bytes
Ed25519PublicKeyOk(s) == IsHex(s) /\ Len(s) = 64
Ed25519SignatureOk(s) == IsHex(s) /\ Len(s) = 128

\* the two arguments the wrong way round
AccountAuthenticatorEd25519_Swapped(publicKey, signature) ==
    [publicKey |-> signature, signature |-> publicKey]

\* new AccountAuthenticatorEd25519(publicKey, signature)
AccountAuthenticatorEd25519(publicKey, signature) ==
    [publicKey |-> publicKey, signature |-> signature]
NoAuthenticator == AccountAuthenticatorEd25519("", "")

KeyTail == Rep("a", 62)                       \* 31 bytes
Key32 == "ed" \o KeyTail              \* a 32-byte key
Sig64 == Rep("b", 128)                        \* a 64-byte signature

\* public keys given to the custodial flow: a 0x-prefixed 33-byte key, a
\* plain 31-byte key
PubKeys == {Prefix0x \o "00" \o Key32, KeyTail}
\* signatures the remote signer returns
Signatures == {Sig64, Prefix0x \o Sig64}

-----------------------------------------------------------------------------
(* Inputs *)

Actions == {"increment", "decrement"}
Amounts == -1..MaxAmount
Addresses == {"", "0xABC", "0xZZ"}
Times == {500 * t : t \in 1..MaxTick}         \* Date.now(), milliseconds

\* what the chain client's argument and address parsing accepts
ValidAmount(amount) == amount >= 0
ValidAddress(address) == address = "0xABC"

-----------------------------------------------------------------------------
(* Transactions *)

CONTRACT_ADDRESS == "<contract>"

\* the two entry points the wrong way round
getCounterFunction_Swapped(action) ==
    LET functionName == IF action = "increment" THEN "subtract_counter" ELSE "add_counter"
    IN  CONTRACT_ADDRESS \o "::counter::" \o functionName

getCounterFunction(action) ==
    LET functionName == IF action = "increment" THEN "add_counter" ELSE "subtract_counter"
    IN  CONTRACT_ADDRESS \o "::counter::" \o functionName

RawTransaction(sender, function, functionArguments, expireTimestamp) ==
    [sender |-> sender, function |-> function,
     functionArguments |-> functionArguments, expireTimestamp |-> expireTimestamp]

\* new SimpleTransaction(rawTransaction, feePayerAddress?)
SimpleTransaction(rawTransaction, feePayerAddress) ==
    [rawTransaction |-> rawTransaction, feePayerAddress |-> feePayerAddress]

NoTxn == SimpleTransaction(RawTransaction("", "", <<>>, 0), Undefined)

\* aptos.transaction.build.simple: withFeePayer reserves the fee-payer slot
\* with the zero address
BuildSimple(sender, withFeePayer, function, functionArguments, expireTimestamp) ==
    SimpleTransaction(RawTransaction(sender, function, functionArguments, expireTimestamp),
                      IF withFeePayer THEN "0x0" ELSE Undefined)

\* expiry the chain client gives a transaction built without options
DEFAULT_TXN_EXP_SEC_FROM_NOW == 20
DefaultExpireTimestamp(now) == (now \div 1000) + DEFAULT_TXN_EXP_SEC_FROM_NOW

\* the 5 minutes are not added
ExpireTimestamp_Now(now) == now \div 1000

\* Math.floor(Date.now() / 1000) + (5 * 60)
ExpireTimestamp(now) == (now \div 1000) + (5 * 60)

\* the argument list is written as empty
SerializeTransaction_NoArguments(txn) ==
    LET raw == txn.rawTransaction
    IN  <<raw.sender, raw.function, "0", ToString(raw.expireTimestamp)>>
        \o (IF txn.feePayerAddress = Undefined THEN <<"00">>
            ELSE <<"01", txn.feePayerAddress>>)

\* transaction.bcsToHex().toString(): the fields in order, the argument
\* list length-prefixed, the optional fee payer behind an option tag
SerializeTransaction(txn) ==
    LET raw == txn.rawTransaction
        args == raw.functionArguments
    IN  <<raw.sender, raw.function, ToString(Len(args))>> \o [i \in 1..Len(args) |-> ToString(args[i])]
        \o <<ToString(raw.expireTimestamp)>>
        \o (IF txn.feePayerAddress = Undefined THEN <<"00">>
            ELSE <<"01", txn.feePayerAddress>>)

\* the number a decimal field denotes
ParseInt(s) == CHOOSE n \in (-1)..(MaxTick + MaxAmount + 5 * 60) : ToString(n) = s

\* the backend reading the serialized transaction back: sender, function,
\* the length-prefixed arguments, the expiration, the optional fee payer
DeserializeTransaction(bytes) ==
    LET n == ParseInt(bytes[3])
        option == SubSeq(bytes, 5 + n, Len(bytes))
    IN  SimpleTransaction(
            RawTransaction(bytes[1], bytes[2],
                           [i \in 1..n |-> ParseInt(bytes[3 + i])],
                           ParseInt(bytes[4 + n])),
            IF option[1] = "01" THEN option[2] ELSE Undefined)

\* authenticator.bcsToHex().toString(): variant tag, length-prefixed key and signature
SerializeAuthenticator(authenticator) ==
    <<"00", "20", authenticator.publicKey, "40", authenticator.signature>>

\* the message of the raw transaction alone, whatever the fee-payer slot
generateSigningMessageForTransaction_Raw(txn) ==
    <<"APTOS::RawTransaction">> \o SerializeTransaction(txn)

\* generateSigningMessageForTransaction: a domain separator, then the raw
\* transaction, with the fee payer when the slot is reserved
generateSigningMessageForTransaction(txn) ==
    IF txn.feePayerAddress = Undefined
    THEN <<"APTOS::RawTransaction">> \o SerializeTransaction(txn)
    ELSE <<"APTOS::RawTransactionWithData", "01">> \o SerializeTransaction(txn)

\* the message bytes as one hex string
RECURSIVE toHex(_)
toHex(message) == IF message = <<>> THEN "" ELSE Head(message) \o toHex(Tail(message))

NoRequest == [serializedTransaction |-> <<>>, senderSignature |-> <<>>]
NoSignRequest == [address |-> "", chainType |-> "", hash |-> ""]

-----------------------------------------------------------------------------
(* Sponsorship endpoint responses *)

Statuses == {200, 500}
Ok(status) == status \in 200..299             \* response.ok

Body(kind, details, transactionHash) ==
    [kind |-> kind, details |-> details, transactionHash |-> transactionHash]

DetailsMessages == {"", "insufficient balance", "Transaction failed",
                    "Transaction failed on-chain"}
TxHashes == {"", "0xdeadbeef"}

\* kind "empty": no body (response.json() rejects); "null": the JSON value
\* null; "object": a JSON object with optional details and transactionHash
Bodies ==
    {Body("empty", Undefined, Undefined), Body("null", Undefined, Undefined),
     Body("object", Undefined, Undefined)}
    \cup {Body("object", d, Undefined) : d \in DetailsMessages}
    \cup {Body("object", Undefined, h) : h \in TxHashes}

Responses == [status : Statuses, body : Bodies]
NoResponse == [status |-> 0, body |-> Body("none", Undefined, Undefined)]

\* the backend's details are dropped
SponsorErrorMessage_Generic(details) == "Failed to sponsor transaction"

\* error.details || 'Failed to sponsor transaction'
SponsorErrorMessage(details) ==
    IF Truthy(details) THEN details ELSE "Failed to sponsor transaction"

\* what external calls reject with
NetworkError == Err("TypeError", "Failed to fetch")
JsonSyntaxError == Err("SyntaxError", "Unexpected end of JSON input")
NullPropertyError == Err("TypeError", "Cannot read properties of null")
UndefinedPropertyError == Err("TypeError", "Cannot read properties of undefined")
BuildInputError == Err("Error", "Invalid input")
SignerError == Err("Error", "User rejected the request")
ChainClientError == Err("WaitForTransactionError", "Transaction timed out")
KeyLengthError == Err("Error", "Invalid key or signature length")

-----------------------------------------------------------------------------
(* A submission call *)

Pending == [state |-> "pending", value |-> Undefined, error |-> NoError]
Resolved(value) == [state |-> "resolved", value |-> value, error |-> NoError]
RejectedWith(error) == [state |-> "rejected", value |-> Undefined, error |-> error]

\* log: the external calls made so far, in order ("build", "sign", "post", "wait")
\* signRequest: what signRawHash was called with
\* walletRequest: the transactionOrPayload signTransaction was called with
\* failedAt: the stage whose failure ended the call
IdleCall ==
    [pc |-> "idle", flow |-> "none",
     action |-> "increment", amount |-> 0, walletAddress |-> "", publicKeyHex |-> "",
     now |-> 0, rawTxn |-> NoTxn, signRequest |-> NoSignRequest,
     walletRequest |-> NoTxn, rawSignature |-> "",
     senderAuthenticator |-> NoAuthenticator, request |-> NoRequest,
     response |-> NoResponse, transactionHash |-> Undefined,
     waitHash |-> Undefined, waitResult |-> "none",
     outcome |-> Pending, failedAt |-> "none", log |-> <<>>]

\* the catch block throws a new error in place of the one it caught
Throw_Wrapped(rec, stage, error) ==
    [rec EXCEPT !.pc = "done", !.failedAt = stage,
                !.outcome = RejectedWith(Err("Error", "Error submitting transaction"))]

\* throw inside try { ... } catch (error) { console.error(...); throw error; }
Throw(rec, stage, error) ==
    [rec EXCEPT !.pc = "done", !.outcome = RejectedWith(error), !.failedAt = stage]

\* return value
Return(rec, value) == [rec EXCEPT !.pc = "done", !.outcome = Resolved(value)]

\* the build's rejection is swallowed and the call goes on to sign
BuildThrows_Swallowed(rec) == [rec EXCEPT !.log = Append(@, "sign"), !.pc = "sign"]

\* the promise of aptos.transaction.build.simple is rejected
BuildThrows(rec) ==
    Throw(rec, "build",
          IF ValidAmount(rec.amount) /\ ValidAddress(rec.walletAddress)
          THEN NetworkError ELSE BuildInputError)

\* a failed attempt is sent again
AfterFetch_Retry(rec, response) ==
    IF ~Ok(response.status)
    THEN [rec EXCEPT !.response = response, !.log = Append(@, "post"), !.pc = "fetch"]
    ELSE [rec EXCEPT !.response = response, !.pc = "json"]

\* after a failed attempt the call awaits the endpoint again, until it answers 2xx
AfterFetch_RetryUntilOk(rec, response) ==
    [rec EXCEPT !.response = response,
                !.pc = IF ~Ok(response.status) THEN "fetch" ELSE "json"]

\* response.ok is not looked at
AfterFetch_StatusIgnored(rec, response) ==
    [rec EXCEPT !.response = response, !.pc = "json"]

\* if (!response.ok) ... else ...: where the call goes once fetch has resolved
AfterFetch(rec, response) ==
    [rec EXCEPT !.response = response,
                !.pc = IF ~Ok(response.status) THEN "errorJson" ELSE "json"]

\* const error = await response.json(); throw new Error(error.details || '...')
SponsorFailure(rec) ==
    LET body == rec.response.body
    IN  CASE body.kind = "empty" -> Throw(rec, "sponsor", JsonSyntaxError)
          [] body.kind = "null" -> Throw(rec, "sponsor", NullPropertyError)
          [] OTHER -> Throw(rec, "sponsor", Err("Error", SponsorErrorMessage(body.details)))

\* the success flag is not looked at
AfterWait_Unchecked(rec, success, message) ==
    Return([rec EXCEPT !.waitResult = IF success THEN "success" ELSE "failure"],
           rec.transactionHash)

\* if (!executed.success) throw new Error(message); return transactionHash
AfterWait(rec, success, message) ==
    IF ~success
    THEN Throw([rec EXCEPT !.waitResult = "failure"], "onchain", Err("Error", message))
    ELSE Return([rec EXCEPT !.waitResult = "success"], rec.transactionHash)

\* the wait is started on the hash the call already held, not the one handed in
StartWait_StaleHash(rec, transactionHash) ==
    [rec EXCEPT !.waitHash = rec.transactionHash,
                !.log = Append(@, "wait"), !.pc = "wait"]

\* result is one variable shared by the calls: the wait is started on the
\* hash of the first call that has an answer
StartWait_SharedResult(rec, transactionHash) ==
    LET first == CHOOSE d \in CallIds : call[d].response # NoResponse
    IN  [rec EXCEPT !.transactionHash = call[first].response.body.transactionHash,
                    !.waitHash = call[first].response.body.transactionHash,
                    !.log = Append(@, "wait"), !.pc = "wait"]

\* aptos.waitForTransaction({ transactionHash }) is called
StartWait(rec, transactionHash) ==
    [rec EXCEPT !.transactionHash = transactionHash, !.waitHash = transactionHash,
                !.log = Append(@, "wait"), !.pc = "wait"]

-----------------------------------------------------------------------------
(* submitCounterTransaction: the custodial flow *)

\* the call is made; it runs up to await aptos.transaction.build.simple(...)
submitCounterTransaction(c) ==
    /\ call[c].pc = "idle"
    /\ \E action \in Actions, amount \in Amounts, walletAddress \in Addresses,
          publicKeyHex \in PubKeys, now \in Times :
         call' = [call EXCEPT ![c] =
                    [@ EXCEPT !.flow = "custodial", !.action = action, !.amount = amount,
                              !.walletAddress = walletAddress,
                              !.publicKeyHex = publicKeyHex, !.now = now,
                              !.log = <<"build">>, !.pc = "build"]]
    /\ UNCHANGED <<reader, hex>>

\* the build returns; the signing message is computed and signRawHash called
CustodialBuildReturns(c) ==
    /\ call[c].pc = "build" /\ call[c].flow = "custodial"
    /\ \/ call' = [call EXCEPT ![c] = BuildThrows(@)]
       \/ /\ ValidAmount(call[c].amount) /\ ValidAddress(call[c].walletAddress)
          /\ LET rawTxn == BuildSimple(call[c].walletAddress, TRUE,
                                       getCounterFunction(call[c].action),
                                       <<call[c].amount>>,
                                       DefaultExpireTimestamp(call[c].now))
                 message == generateSigningMessageForTransaction(rawTxn)
             IN  call' = [call EXCEPT ![c] =
                            [@ EXCEPT !.rawTxn = rawTxn,
                                      !.signRequest =
                                          [address |-> call[c].walletAddress,
                                           chainType |-> "aptos",
                                           hash |-> Prefix0x \o toHex(message)],
                                      !.log = Append(@, "sign"), !.pc = "sign"]]
    /\ UNCHANGED <<reader, hex>>

\* signRawHash returns; the authenticator is built, both parts serialized
\* and the sponsorship request sent
CustodialSignReturns(c) ==
    /\ call[c].pc = "sign" /\ call[c].flow = "custodial"
    /\ \/ call' = [call EXCEPT ![c] = Throw(@, "sign", SignerError)]
       \/ \E rawSignature \in Signatures :
            LET cleanPublicKey == CleanPublicKey(call[c].publicKeyHex)
                cleanSignature == CleanSignature(rawSignature)
                senderAuthenticator ==
                    AccountAuthenticatorEd25519(cleanPublicKey, cleanSignature)
                simpleTransaction ==
                    SimpleTransaction(call[c].rawTxn.rawTransaction, Undefined)
                signed == [call[c] EXCEPT !.rawSignature = rawSignature]
            IN  IF ~(Ed25519PublicKeyOk(cleanPublicKey) /\ Ed25519SignatureOk(cleanSignature))
                THEN call' = [call EXCEPT ![c] = Throw(signed, "authenticator", KeyLengthError)]
                ELSE call' = [call EXCEPT ![c] =
                               [signed EXCEPT
                                  !.senderAuthenticator = senderAuthenticator,
                                  !.request =
                                      [serializedTransaction |->
                                           SerializeTransaction(simpleTransaction),
                                       senderSignature |->
                                           SerializeAuthenticator(senderAuthenticator)],
                                  !.log = Append(@, "post"), !.pc = "fetch"]]
    /\ UNCHANGED <<reader, hex>>

\* fetch settles
CustodialFetchReturns(c) ==
    /\ call[c].pc = "fetch" /\ call[c].flow = "custodial"
    /\ \/ call' = [call EXCEPT ![c] = Throw(@, "sponsor", NetworkError)]
       \/ \E response \in Responses : call' = [call EXCEPT ![c] = AfterFetch(@, response)]
    /\ UNCHANGED <<reader, hex>>

\* !response.ok: the body is read and the error thrown
CustodialSponsorFailure(c) ==
    /\ call[c].pc = "errorJson" /\ call[c].flow = "custodial"
    /\ call' = [call EXCEPT ![c] = SponsorFailure(@)]
    /\ UNCHANGED <<reader, hex>>

\* response.ok: the body is read and the confirmation wait started
CustodialJsonReturns(c) ==
    /\ call[c].pc = "json" /\ call[c].flow = "custodial"
    /\ LET body == call[c].response.body
       IN  call' = [call EXCEPT ![c] =
                      CASE body.kind = "empty" -> Throw(@, "parse", JsonSyntaxError)
                        [] body.kind = "null" -> Throw(@, "parse", NullPropertyError)
                        [] OTHER -> StartWait(@, body.transactionHash)]
    /\ UNCHANGED <<reader, hex>>

\* aptos.waitForTransaction settles
CustodialWaitReturns(c) ==
    /\ call[c].pc = "wait" /\ call[c].flow = "custodial"
    /\ \/ call' = [call EXCEPT ![c] =
                     Throw([@ EXCEPT !.waitResult = "threw"], "confirm", ChainClientError)]
       \/ \E success \in BOOLEAN :
            call' = [call EXCEPT ![c] = AfterWait(@, success, "Transaction failed")]
    /\ UNCHANGED <<reader, hex>>

-----------------------------------------------------------------------------
(* submitCounterTransactionNative and buildSignAndSponsorTransaction: the wallet flow *)

\* the authenticator a wallet returns from signTransaction
WalletAuthenticator == AccountAuthenticatorEd25519(Key32, Sig64)

\* the call is made: the address check, then buildSignAndSponsorTransaction
\* runs up to await aptos.transaction.build.simple(...)
submitCounterTransactionNative(c) ==
    /\ call[c].pc = "idle"
    /\ \E action \in Actions, amount \in Amounts, walletAddress \in Addresses,
          now \in Times :
         LET started == [call[c] EXCEPT !.flow = "native", !.action = action,
                                        !.amount = amount,
                                        !.walletAddress = walletAddress]
         IN  call' = [call EXCEPT ![c] =
                CASE ~Truthy(walletAddress) ->
                       Throw(started, "input", Err("Error", "No wallet address provided"))
                  [] Truthy(walletAddress) /\ ~ValidAddress(walletAddress) ->
                       \* AccountAddress.from(walletAddress) throws
                       Throw(started, "build", BuildInputError)
                  [] OTHER ->
                       [started EXCEPT !.now = now, !.log = <<"build">>, !.pc = "build"]]
    /\ UNCHANGED <<reader, hex>>

\* the build returns; the wallet is asked to sign the transaction
NativeBuildReturns(c) ==
    /\ call[c].pc = "build" /\ call[c].flow = "native"
    /\ \/ call' = [call EXCEPT ![c] = BuildThrows(@)]
       \/ /\ ValidAmount(call[c].amount) /\ ValidAddress(call[c].walletAddress)
          /\ LET simpleTx == BuildSimple(call[c].walletAddress, TRUE,
                                         getCounterFunction(call[c].action),
                                         <<call[c].amount>>,
                                         ExpireTimestamp(call[c].now))
             IN  call' = [call EXCEPT ![c] =
                            [@ EXCEPT !.rawTxn = simpleTx, !.walletRequest = simpleTx,
                                      !.log = Append(@, "sign"), !.pc = "sign"]]
    /\ UNCHANGED <<reader, hex>>

\* signTransaction returns; both parts are serialized and the request sent
NativeSignReturns(c) ==
    /\ call[c].pc = "sign" /\ call[c].flow = "native"
    /\ \/ call' = [call EXCEPT ![c] = Throw(@, "sign", SignerError)]
       \/ \* senderSig.authenticator is undefined
          call' = [call EXCEPT ![c] = Throw(@, "authenticator", UndefinedPropertyError)]
       \/ LET simpleTx == call[c].rawTxn
              authenticator == WalletAuthenticator
          IN  call' = [call EXCEPT ![c] =
                         [@ EXCEPT !.senderAuthenticator = authenticator,
                                   !.request =
                                       [serializedTransaction |->
                                            SerializeTransaction(simpleTx),
                                        senderSignature |->
                                            SerializeAuthenticator(authenticator)],
                                   !.log = Append(@, "post"), !.pc = "fetch"]]
    /\ UNCHANGED <<reader, hex>>

\* fetch settles
NativeFetchReturns(c) ==
    /\ call[c].pc = "fetch" /\ call[c].flow = "native"
    /\ \/ call' = [call EXCEPT ![c] = Throw(@, "sponsor", NetworkError)]
       \/ \E response \in Responses : call' = [call EXCEPT ![c] = AfterFetch(@, response)]
    /\ UNCHANGED <<reader, hex>>

\* !response.ok: the body is read and the error thrown
NativeSponsorFailure(c) ==
    /\ call[c].pc = "errorJson" /\ call[c].flow = "native"
    /\ call' = [call EXCEPT ![c] = SponsorFailure(@)]
    /\ UNCHANGED <<reader, hex>>

\* response.ok: the body is read, the hash returned to
\* submitCounterTransactionNative, checked, and the confirmation wait started
NativeJsonReturns(c) ==
    /\ call[c].pc = "json" /\ call[c].flow = "native"
    /\ LET body == call[c].response.body
           transactionHash == body.transactionHash
       IN  call' = [call EXCEPT ![c] =
                      CASE body.kind = "empty" -> Throw(@, "parse", JsonSyntaxError)
                        [] body.kind = "null" -> Throw(@, "parse", NullPropertyError)
                        [] body.kind = "object" /\ ~Truthy(transactionHash) ->
                             Throw([@ EXCEPT !.transactionHash = transactionHash], "hash",
                                   Err("Error", "Unable to get transaction hash from backend"))
                        [] OTHER -> StartWait(@, transactionHash)]
    /\ UNCHANGED <<reader, hex>>

\* aptos.waitForTransaction settles
NativeWaitReturns(c) ==
    /\ call[c].pc = "wait" /\ call[c].flow = "native"
    /\ \/ call' = [call EXCEPT ![c] =
                     Throw([@ EXCEPT !.waitResult = "threw"], "confirm", ChainClientError)]
       \/ \E success \in BOOLEAN :
            call' = [call EXCEPT ![c] = AfterWait(@, success, "Transaction failed on-chain")]
    /\ UNCHANGED <<reader, hex>>

-----------------------------------------------------------------------------
(* fetchCounterValue *)

NaN == [kind |-> "NaN", n |-> 0]
Null == [kind |-> "null", n |-> 0]
Num(n) == [kind |-> "number", n |-> n]

\* Number(v) of a view result element: a decimal string, or undefined
Number(v) ==
    IF \E n \in 0..MaxCounter : ToString(n) = v
    THEN Num(CHOOSE n \in 0..MaxCounter : ToString(n) = v)
    ELSE NaN

\* what aptos.view resolves to: the returned values
ViewResults == {<<>>} \cup {<<ToString(n)>> : n \in 0..MaxCounter}

\* result[0]
First(result) == IF Len(result) >= 1 THEN result[1] ELSE Undefined

IdleReader ==
    [pc |-> "idle", address |-> "", view |-> "none", viewResult |-> <<>>,
     state |-> "pending", value |-> Null]

\* the catch block rethrows
ReaderReturns_Rethrow(rec, threw, result) ==
    IF threw
    THEN [rec EXCEPT !.pc = "done", !.view = "threw", !.state = "rejected"]
    ELSE [rec EXCEPT !.pc = "done", !.view = "returned", !.viewResult = result,
                     !.state = "resolved", !.value = Number(First(result))]

\* try { ... return Number(result[0]); } catch (error) { ...; return null; }
ReaderReturns(rec, threw, result) ==
    IF threw
    THEN [rec EXCEPT !.pc = "done", !.view = "threw", !.state = "resolved", !.value = Null]
    ELSE [rec EXCEPT !.pc = "done", !.view = "returned", !.viewResult = result,
                     !.state = "resolved", !.value = Number(First(result))]

\* the call is made; it runs up to await aptos.view(...)
fetchCounterValue ==
    /\ reader.pc = "idle"
    /\ \E address \in Addresses :
         reader' = [reader EXCEPT !.address = address, !.pc = "view"]
    /\ UNCHANGED <<call, hex>>

\* aptos.view settles: it throws on a malformed address, and may throw anyway
ViewReturns ==
    /\ reader.pc = "view"
    /\ \/ reader' = ReaderReturns(reader, TRUE, <<>>)
       \/ /\ ValidAddress(reader.address)
          /\ \E result \in ViewResults : reader' = ReaderReturns(reader, FALSE, result)
    /\ UNCHANGED <<call, hex>>

-----------------------------------------------------------------------------
(* Hex normalisation on its own *)

\* every public key: an optional 0x, up to MaxLeadBytes bytes, the 31-byte tail
LeadByte == {"00", "ed"}
RECURSIVE Leads(_)
Leads(n) == IF n = 0 THEN {""} ELSE {b \o l : b \in LeadByte, l \in Leads(n - 1)}
HexKeys == {p \o l \o KeyTail :
              p \in {"", Prefix0x}, l \in UNION {Leads(n) : n \in 0..MaxLeadBytes}}
HexSignatures == {p \o s : p \in {"", Prefix0x}, s \in {Sig64, Rep("b", 126)}}

HexOff == [pc |-> "off", publicKeyHex |-> "", rawSignature |-> "",
           cleanPublicKey |-> "", cleanSignature |-> ""]

\* lines 67-76 applied to the inputs
NormalizeHex ==
    /\ hex.pc = "in"
    /\ hex' = [hex EXCEPT !.pc = "out",
                          !.cleanPublicKey = CleanPublicKey(hex.publicKeyHex),
                          !.cleanSignature = CleanSignature(hex.rawSignature)]
    /\ UNCHANGED <<call, reader>>

\* the results given as inputs again
NormalizeAgain ==
    /\ hex.pc = "out"
    /\ hex' = [hex EXCEPT !.pc = "again",
                          !.publicKeyHex = hex.cleanPublicKey,
                          !.rawSignature = hex.cleanSignature,
                          !.cleanPublicKey = CleanPublicKey(hex.cleanPublicKey),
                          !.cleanSignature = CleanSignature(hex.cleanSignature)]
    /\ UNCHANGED <<call, reader>>

-----------------------------------------------------------------------------
(* Specifications *)

\* one submission call and one read
Init ==
    /\ call = [c \in CallIds |-> IdleCall]
    /\ reader = IdleReader
    /\ hex = HexOff

Step(c) ==
    \/ submitCounterTransaction(c)
    \/ CustodialBuildReturns(c)
    \/ CustodialSignReturns(c)
    \/ CustodialFetchReturns(c)
    \/ CustodialSponsorFailure(c)
    \/ CustodialJsonReturns(c)
    \/ CustodialWaitReturns(c)
    \/ submitCounterTransactionNative(c)
    \/ NativeBuildReturns(c)
    \/ NativeSignReturns(c)
    \/ NativeFetchReturns(c)
    \/ NativeSponsorFailure(c)
    \/ NativeJsonReturns(c)
    \/ NativeWaitReturns(c)

Next ==
    \/ Step("c1")
    \/ fetchCounterValue
    \/ ViewReturns

Spec == Init /\ [][Next]_vars

\* an awaited external call of call c settles and the call runs on
Resume(c) ==
    \/ CustodialBuildReturns(c)
    \/ CustodialSignReturns(c)
    \/ CustodialFetchReturns(c)
    \/ CustodialSponsorFailure(c)
    \/ CustodialJsonReturns(c)
    \/ CustodialWaitReturns(c)
    \/ NativeBuildReturns(c)
    \/ NativeSignReturns(c)
    \/ NativeFetchReturns(c)
    \/ NativeSponsorFailure(c)
    \/ NativeJsonReturns(c)
    \/ NativeWaitReturns(c)

\* Spec, with every awaited external call settling in the end
SpecLive == Init /\ [][Next]_vars /\ WF_vars(Resume("c1"))

\* the hex normalisation applied to every key and signature
InitHex ==
    /\ call = [c \in CallIds |-> IdleCall]
    /\ reader = IdleReader
    /\ \E publicKeyHex \in HexKeys, rawSignature \in HexSignatures :
         hex = [HexOff EXCEPT !.pc = "in", !.publicKeyHex = publicKeyHex,
                              !.rawSignature = rawSignature]

NextHex == NormalizeHex \/ NormalizeAgain

SpecHex == InitHex /\ [][NextHex]_vars

\* two submission calls at once, each by 1 from 0xABC at time 500 with the
\* prefixed 33-byte key
PairScenario(rec) ==
    rec.flow # "none" =>
        /\ rec.amount = 1 /\ rec.walletAddress = "0xABC"
        /\ rec.now = 500
        /\ rec.flow = "custodial" => rec.publicKeyHex = Prefix0x \o "00" \o Key32

NextPair ==
    \E c \in CallIds :
        \/ submitCounterTransaction(c) /\ PairScenario(call'[c])
        \/ CustodialBuildReturns(c)
        \/ CustodialSignReturns(c)
        \/ CustodialFetchReturns(c)
        \/ CustodialSponsorFailure(c)
        \/ CustodialJsonReturns(c)
        \/ CustodialWaitReturns(c)
        \/ submitCounterTransactionNative(c) /\ PairScenario(call'[c])
        \/ NativeBuildReturns(c)
        \/ NativeSignReturns(c)
        \/ NativeFetchReturns(c)
        \/ NativeSponsorFailure(c)
        \/ NativeJsonReturns(c)
        \/ NativeWaitReturns(c)

SpecPair == Init /\ [][NextPair]_vars

-----------------------------------------------------------------------------
(* Properties *)

Done(c) == call[c].pc = "done"
Resolves(c) == call[c].outcome.state = "resolved"
Rejects(c) == call[c].outcome.state = "rejected"
Made(c, op) == \E i \in 1..Len(call[c].log) : call[c].log[i] = op
Count(c, op) == Cardinality({i \in 1..Len(call[c].log) : call[c].log[i] = op})
Built(c) == call[c].rawTxn # NoTxn
Answered(c) == call[c].response # NoResponse

\* C1: a call resolves with a hash only after the confirmation wait for that
\* same hash has completed with success=true; until then, and in
\* particular after a 2xx sponsorship response, it is pending or rejected.
C1_HashOnlyAfterConfirmedSuccess ==
    \A c \in CallIds :
        Resolves(c) =>
            /\ Made(c, "wait")
            /\ call[c].waitHash = call[c].outcome.value
            /\ call[c].waitResult = "success"
            /\ Answered(c) /\ Ok(call[c].response.status)

C1_Witness ==
    \E c \in CallIds :
        /\ Resolves(c) /\ call[c].outcome.value = "0xdeadbeef"
        /\ call[c].waitHash = "0xdeadbeef" /\ call[c].waitResult = "success"

\* C2 as stated: a non-2xx response whose JSON body carries a details string
\* makes the call reject with exactly that string as the message.
C2_DetailsStringSurfaced ==
    \A c \in CallIds :
        ( /\ Done(c) /\ Answered(c) /\ ~Ok(call[c].response.status)
          /\ call[c].response.body.kind = "object"
          /\ call[c].response.body.details # Undefined )
        => /\ Rejects(c)
           /\ call[c].outcome.error.message = call[c].response.body.details

\* C2 amended: a non-2xx response whose JSON body carries a non-empty details
\* string makes the call reject with exactly that string as the message.
C2_NonEmptyDetailsSurfaced ==
    \A c \in CallIds :
        ( /\ Done(c) /\ Answered(c) /\ ~Ok(call[c].response.status)
          /\ call[c].response.body.kind = "object"
          /\ call[c].response.body.details \notin {Undefined, ""} )
        => /\ Rejects(c)
           /\ call[c].outcome.error.message = call[c].response.body.details

C2_Witness ==
    \E c \in CallIds :
        /\ Done(c) /\ Rejects(c) /\ call[c].response.status = 500
        /\ call[c].response.body.details = "insufficient balance"
        /\ call[c].outcome.error.message = "insufficient balance"

\* C3: a non-2xx response whose body carries no details (no details field,
\* or no body at all) makes the call reject with the generic fallback message.
C3_FallbackWithoutDetails ==
    \A c \in CallIds :
        ( /\ Done(c) /\ Answered(c) /\ ~Ok(call[c].response.status)
          /\ call[c].response.body.kind \in {"empty", "object"}
          /\ call[c].response.body.details = Undefined )
        => /\ Rejects(c)
           /\ call[c].outcome.error.message = "Failed to sponsor transaction"

\* C4: fetchCounterValue never rejects; it resolves to null when the view call
\* throws and to the number the first returned element denotes when it returns.
C4_ReaderNeverRejects ==
    /\ reader.state # "rejected"
    /\ reader.pc = "done" =>
        /\ reader.state = "resolved"
        /\ reader.view = "threw" => reader.value = Null
        /\ \A n \in 0..MaxCounter :
             (reader.view = "returned" /\ reader.viewResult = <<ToString(n)>>)
                 => reader.value = Num(n)

C4_Witness ==
    /\ reader.pc = "done" /\ reader.view = "threw" /\ reader.address = "0xZZ"
    /\ reader.state = "resolved" /\ reader.value = Null

\* C5: increment maps to <contract>::counter::add_counter and decrement to
\* <contract>::counter::subtract_counter, and a built transaction targets the
\* function of the requested action with the amount as its only argument.
C5_EntryPointOfAction ==
    \A c \in CallIds :
        Built(c) =>
            /\ call[c].action = "increment" =>
                 call[c].rawTxn.rawTransaction.function
                     = CONTRACT_ADDRESS \o "::counter::add_counter"
            /\ call[c].action = "decrement" =>
                 call[c].rawTxn.rawTransaction.function
                     = CONTRACT_ADDRESS \o "::counter::subtract_counter"
            /\ call[c].rawTxn.rawTransaction.functionArguments = <<call[c].amount>>

C5_Witness ==
    \E c \in CallIds :
        /\ Built(c) /\ call[c].action = "decrement" /\ call[c].amount = 1
        /\ call[c].rawTxn.rawTransaction.function = "<contract>::counter::subtract_counter"

\* C6: a built transaction has its fee-payer slot reserved and expires
\* strictly after the time it was built at; in the wallet flow it expires
\* 5 minutes after the build time's second.
C6_FeePayerAndFutureExpiry ==
    \A c \in CallIds :
        Built(c) =>
            /\ call[c].rawTxn.feePayerAddress # Undefined
            /\ call[c].rawTxn.rawTransaction.expireTimestamp * 1000 > call[c].now
            /\ call[c].flow = "native" =>
                 call[c].rawTxn.rawTransaction.expireTimestamp
                     = (call[c].now \div 1000) + 300

C6_Witness ==
    \E c \in CallIds :
        /\ Built(c) /\ call[c].flow = "native" /\ call[c].now = 500
        /\ call[c].rawTxn.rawTransaction.expireTimestamp = 300

\* C7: a call posts to the sponsorship endpoint at most once, and when the
\* attempt fails (fetch rejects or the status is not 2xx) the call never
\* starts a confirmation wait and ends rejected.
C7_SinglePostNoRetry ==
    \A c \in CallIds :
        /\ Count(c, "post") <= 1
        /\ ( \/ call[c].failedAt = "sponsor"
             \/ (Answered(c) /\ ~Ok(call[c].response.status)) )
           => /\ ~Made(c, "wait")
              /\ call[c].pc \in {"errorJson", "done"}
              /\ Done(c) => Rejects(c)

C7_Witness ==
    \E c \in CallIds :
        /\ Done(c) /\ Rejects(c) /\ call[c].failedAt = "sponsor"
        /\ call[c].response.status = 500 /\ Count(c, "post") = 1

\* C8: a call that fails because the finalized transaction reports
\* success=false rejects with an error that differs from the error of any
\* call that fails at sponsorship.
C8_OnChainFailureDistinct ==
    \A c \in CallIds :
        call[c].failedAt = "onchain" =>
            /\ Rejects(c)
            /\ \A d \in CallIds :
                 call[d].failedAt = "sponsor" =>
                     call[c].outcome.error # call[d].outcome.error

\* C9: with an invalid amount or a malformed address the call asks no signer
\* and sends no sponsorship request, and it ends rejected at the input check
\* or at the build.
C9_InvalidInputStopsBeforeSigning ==
    \A c \in CallIds :
        ( /\ call[c].flow # "none"
          /\ ~(ValidAmount(call[c].amount) /\ ValidAddress(call[c].walletAddress)) )
        => /\ ~Made(c, "sign") /\ ~Made(c, "post") /\ ~Made(c, "wait")
           /\ call[c].pc \in {"build", "done"}
           /\ Done(c) => (Rejects(c) /\ call[c].failedAt \in {"input", "build"})

C9_Witness ==
    \E c \in CallIds :
        /\ Done(c) /\ Rejects(c) /\ call[c].flow = "custodial"
        /\ call[c].amount = -1 /\ call[c].walletAddress = "0xABC"
        /\ call[c].log = <<"build">>

\* the key with its 0x prefix, if any, removed
C10_Body(k) ==
    IF Len(k) >= 2 /\ SubSeq(k, 1, 2) = "0x" THEN SubSeq(k, 3, Len(k)) ELSE k

\* C10: normalisation strips an optional 0x and leaves an unprefixed string
\* unchanged, normalising its result again changes nothing, a 33-byte key
\* loses its leading byte and a 32-byte key passes unchanged, with or
\* without a 0x prefix.
C10_HexNormalisation ==
    /\ hex.pc = "out" =>
        /\ hex.cleanSignature = C10_Body(hex.rawSignature)
        /\ Len(C10_Body(hex.publicKeyHex)) = 66 =>
             hex.cleanPublicKey = SubSeq(C10_Body(hex.publicKeyHex), 3, 66)
        /\ Len(C10_Body(hex.publicKeyHex)) # 66 =>
             hex.cleanPublicKey = C10_Body(hex.publicKeyHex)
        /\ Len(C10_Body(hex.publicKeyHex)) \in {64, 66} => Len(hex.cleanPublicKey) = 64
    /\ hex.pc = "again" =>
        /\ hex.cleanPublicKey = hex.publicKeyHex
        /\ hex.cleanSignature = hex.rawSignature

C10_Witness ==
    /\ hex.pc = "out"
    /\ hex.publicKeyHex = Prefix0x \o "00" \o Key32
    /\ hex.cleanPublicKey = Key32
    /\ hex.rawSignature = Prefix0x \o Sig64 /\ hex.cleanSignature = Sig64

\* C11: when the build, the signing, the sponsorship (2xx with hash h) and
\* the confirmation (success=true) all succeed, the call resolves to h, the
\* hash of the sponsorship response, and the wait was made on h.
C11_ResolvesToBackendHash ==
    \A c \in CallIds :
        (Done(c) /\ call[c].waitResult = "success") =>
            /\ Resolves(c)
            /\ call[c].outcome.value = call[c].response.body.transactionHash
            /\ call[c].waitHash = call[c].response.body.transactionHash

C11_Witness ==
    \E c \in CallIds :
        /\ call[c].action = "increment" /\ call[c].walletAddress = "0xABC"
        /\ call[c].response.status = 200
        /\ call[c].response.body.transactionHash = "0xdeadbeef"
        /\ call[c].waitResult = "success"
        /\ Resolves(c) /\ call[c].outcome.value = "0xdeadbeef"

\* C12: the transaction the backend reads back from the sponsorship request
\* has the sender, function, arguments and expiration of the transaction
\* the build produced.
C12_SerializedRoundTrip ==
    \A c \in CallIds :
        Made(c, "post") =>
            LET sent == DeserializeTransaction(call[c].request.serializedTransaction)
                built == call[c].rawTxn.rawTransaction
            IN  /\ sent.rawTransaction.sender = built.sender
                /\ sent.rawTransaction.function = built.function
                /\ sent.rawTransaction.functionArguments = built.functionArguments
                /\ sent.rawTransaction.expireTimestamp = built.expireTimestamp

C12_Witness ==
    \E c \in CallIds :
        /\ Made(c, "post") /\ call[c].flow = "custodial" /\ call[c].amount = 1
        /\ DeserializeTransaction(call[c].request.serializedTransaction).rawTransaction
             = RawTransaction("0xABC", "<contract>::counter::add_counter", <<1>>, 21)

\* what call c holds is its own: the request carries the transaction and
\* authenticator it built, the wait is on the hash of its own response and
\* its outcome follows from its own responses
C13_Own(c) ==
    /\ Made(c, "post") =>
         /\ call[c].request.serializedTransaction
              = SerializeTransaction(
                    SimpleTransaction(call[c].rawTxn.rawTransaction,
                                      IF call[c].flow = "custodial" THEN Undefined
                                      ELSE call[c].rawTxn.feePayerAddress))
         /\ call[c].request.senderSignature
              = SerializeAuthenticator(call[c].senderAuthenticator)
         /\ call[c].rawTxn.rawTransaction.function
              = (IF call[c].action = "increment"
                 THEN "<contract>::counter::add_counter"
                 ELSE "<contract>::counter::subtract_counter")
    /\ Made(c, "wait") =>
         /\ Answered(c)
         /\ call[c].waitHash = call[c].response.body.transactionHash
    /\ Resolves(c) =>
         /\ call[c].waitResult = "success"
         /\ call[c].outcome.value = call[c].response.body.transactionHash
    /\ (call[c].failedAt = "sponsor" /\ Answered(c)
        /\ call[c].response.body.kind = "object") =>
         call[c].outcome.error.message
             = (IF call[c].response.body.details \in {Undefined, ""}
                THEN "Failed to sponsor transaction"
                ELSE call[c].response.body.details)
    /\ call[c].failedAt = "onchain" => call[c].waitResult = "failure"

\* C13: with two calls running at once, under every interleaving, each call
\* sends what it built itself, waits on the hash of its own response and
\* ends as its own responses decide, and a step of one call changes nothing
\* of the other.
C13_ConcurrentCallsIndependent ==
    /\ [](\A c \in CallIds : C13_Own(c))
    /\ [][\A c \in CallIds :
            call'[c] # call[c] => \A d \in CallIds \ {c} : call'[d] = call[d]]_vars

C13_Witness ==
    /\ Done("c1") /\ Done("c2")
    /\ call["c1"].walletAddress = "0xABC" /\ call["c2"].walletAddress = "0xABC"
    /\ call["c1"].action = "increment" /\ call["c2"].action = "decrement"
    /\ Resolves("c2") /\ call["c2"].outcome.value = "0xdeadbeef"
    /\ Rejects("c1") /\ call["c1"].outcome.error.message = "insufficient balance"

\* C14: the external calls of one submission are made in the order build,
\* sign, post, wait: the signer is asked only once the build has returned a
\* transaction, the request is posted only once the signer has returned,
\* and the wait is started only once a 2xx response has been received.
C14_StagesInOrder ==
    \A c \in CallIds :
        /\ call[c].log = SubSeq(<<"build", "sign", "post", "wait">>, 1, Len(call[c].log))
        /\ Made(c, "sign") => Built(c)
        /\ Made(c, "post") =>
             /\ call[c].senderAuthenticator # NoAuthenticator
             /\ call[c].flow = "custodial" => call[c].rawSignature # ""
        /\ Made(c, "wait") => (Answered(c) /\ Ok(call[c].response.status))

C14_Witness ==
    \E c \in CallIds :
        /\ call[c].pc = "wait" /\ call[c].flow = "native"
        /\ call[c].log = <<"build", "sign", "post", "wait">>
        /\ call[c].response.status = 200

\* C15: a call ended by the failure of a stage is rejected with the error
\* that stage failed with, and has made no external call of a later stage;
\* a signer rejection leaves the sponsorship request unsent.
C15_FailFast ==
    \A c \in CallIds :
        /\ call[c].failedAt # "none" => (Done(c) /\ Rejects(c))
        /\ call[c].failedAt \in {"input", "build"} =>
             /\ call[c].outcome.error
                  \in {NetworkError, BuildInputError, Err("Error", "No wallet address provided")}
             /\ ~Made(c, "sign") /\ ~Made(c, "post") /\ ~Made(c, "wait")
        /\ call[c].failedAt = "sign" =>
             /\ call[c].outcome.error = SignerError
             /\ ~Made(c, "post") /\ ~Made(c, "wait")
        /\ call[c].failedAt = "authenticator" => (~Made(c, "post") /\ ~Made(c, "wait"))
        /\ call[c].failedAt \in {"sponsor", "parse", "hash"} => ~Made(c, "wait")
        /\ (call[c].failedAt = "sponsor" /\ ~Answered(c)) =>
             call[c].outcome.error = NetworkError
        /\ call[c].failedAt = "confirm" => call[c].outcome.error = ChainClientError

C15_Witness ==
    \E c \in CallIds :
        /\ Done(c) /\ Rejects(c) /\ call[c].failedAt = "sign"
        /\ call[c].outcome.error = SignerError
        /\ call[c].log = <<"build", "sign">>

\* C16: a call asks one signer, once. The custodial flow asks only the
\* digest signer, with the sender address, chain type aptos and the 0x hex
\* of the signing message of the built transaction; the wallet flow asks
\* only the wallet, with the built transaction. The authenticator posted is
\* made of what that one request returned.
C16_OneSigningStrategy ==
    \A c \in CallIds :
        /\ Count(c, "sign") <= 1
        /\ call[c].flow = "custodial" =>
             /\ call[c].walletRequest = NoTxn
             /\ Made(c, "sign") =>
                  /\ call[c].signRequest.address = call[c].walletAddress
                  /\ call[c].signRequest.chainType = "aptos"
                  /\ call[c].signRequest.hash
                       = "0x" \o toHex(generateSigningMessageForTransaction(call[c].rawTxn))
             /\ Made(c, "post") =>
                  call[c].request.senderSignature
                      = <<"00", "20", Key32, "40", C10_Body(call[c].rawSignature)>>
        /\ call[c].flow = "native" =>
             /\ call[c].signRequest = NoSignRequest
             /\ Made(c, "sign") => call[c].walletRequest = call[c].rawTxn
             /\ Made(c, "post") =>
                  call[c].request.senderSignature
                      = <<"00", "20", WalletAuthenticator.publicKey,
                          "40", WalletAuthenticator.signature>>
        /\ ~Made(c, "sign") =>
             (call[c].signRequest = NoSignRequest /\ call[c].walletRequest = NoTxn)

C16_Witness ==
    \E c \in CallIds :
        /\ call[c].flow = "custodial" /\ Made(c, "post")
        /\ call[c].rawSignature = "0x" \o Sig64
        /\ call[c].signRequest.address = "0xABC"
        /\ call[c].request.senderSignature = <<"00", "20", Key32, "40", Sig64>>

\* C17: given that every awaited external call settles, a submission call
\* that has been made ends, resolved or rejected.
C17_CallTerminates ==
    \A c \in CallIds :
        (call[c].pc # "idle") ~> (Done(c) /\ (Resolves(c) \/ Rejects(c)))

C17_Witness ==
    \E c \in CallIds :
        /\ Done(c) /\ Resolves(c) /\ call[c].log = <<"build", "sign", "post", "wait">>

\* C18: the confirmation wait is only started with a non-empty hash, and a
\* 2xx response without a transactionHash ends the call rejected with no
\* wait made.
C18_WaitOnlyWithHash ==
    \A c \in CallIds :
        /\ Made(c, "wait") => call[c].waitHash \notin {Undefined, ""}
        /\ ( /\ Done(c) /\ Answered(c) /\ Ok(call[c].response.status)
             /\ call[c].response.body.transactionHash \in {Undefined, ""} )
           => (Rejects(c) /\ ~Made(c, "wait"))

\* C19 as stated: the transaction serialized into the request is the
\* envelope the signature was made over, fee-payer slot included.
C19_SignedEnvelopeSent ==
    \A c \in CallIds :
        Made(c, "post") =>
            /\ call[c].rawTxn.feePayerAddress # Undefined
            /\ call[c].request.serializedTransaction = SerializeTransaction(call[c].rawTxn)

\* C19 amended: in the wallet flow the request carries the envelope the
\* wallet signed, fee-payer slot included; in the custodial flow the signing
\* message is the fee-payer message of the built envelope and the request
\* carries the same raw transaction with the fee-payer slot unset.
C19_EnvelopeSentPerFlow ==
    \A c \in CallIds :
        Made(c, "post") =>
            /\ call[c].rawTxn.feePayerAddress = "0x0"
            /\ call[c].flow = "native" =>
                 /\ call[c].walletRequest = call[c].rawTxn
                 /\ call[c].request.serializedTransaction
                      = SerializeTransaction(call[c].walletRequest)
            /\ call[c].flow = "custodial" =>
                 /\ SubSeq(call[c].signRequest.hash, 1,
                           Len("0xAPTOS::RawTransactionWithData"))
                      = "0xAPTOS::RawTransactionWithData"
                 /\ call[c].request.serializedTransaction
                      = SerializeTransaction(
                            SimpleTransaction(call[c].rawTxn.rawTransaction, Undefined))

C19_Witness ==
    \E c \in CallIds :
        /\ Made(c, "post") /\ call[c].flow = "custodial"
        /\ call[c].rawTxn.feePayerAddress = "0x0"
        /\ call[c].request.serializedTransaction[Len(call[c].request.serializedTransaction)]
             = "00"

\* C20: submitCounterTransactionNative with an empty wallet address rejects
\* with 'No wallet address provided' having built nothing, asked no wallet
\* and made no request to the endpoint or the chain.
C20_EmptyAddressRejectedFirst ==
    \A c \in CallIds :
        (call[c].flow = "native" /\ call[c].walletAddress = "") =>
            /\ Done(c) /\ Rejects(c)
            /\ call[c].outcome.error = Err("Error", "No wallet address provided")
            /\ call[c].log = <<>>
            /\ call[c].rawTxn = NoTxn /\ call[c].walletRequest = NoTxn
            /\ call[c].request = NoRequest /\ ~Answered(c)

C20_Witness ==
    \E c \in CallIds :
        /\ call[c].flow = "native" /\ call[c].walletAddress = ""
        /\ Rejects(c) /\ call[c].failedAt = "input" /\ call[c].log = <<>>

====
